---- MODULE Spec2Model ----
(***************************************************************************)
(* The countdown widget of src/src/components/Timer.tsx as a state machine. *)
(*                                                                         *)
(* React state (time, isRunning, inputHours, inputMinutes) and the three   *)
(* refs are variables.  One action is one browser task: an event handler   *)
(* or callback, the re-render its state updates cause, and the effects     *)
(* (cleanup of the previous instance, then the body) whose dependency      *)
(* arrays changed in that render.  Date.now() is the variable now, in ms.  *)
(***************************************************************************)
EXTENDS Integers, Sequences, FiniteSets, TLC

VARIABLES
    time,             \* useState<number>(0)            Timer.tsx:5
    isRunning,        \* useState<boolean>(false)       Timer.tsx:6
    inputHours,       \* useState<string>("")           Timer.tsx:7
    inputMinutes,     \* useState<string>("")           Timer.tsx:8
    totalDurationRef, \* useRef<number>(0)              Timer.tsx:13
    startTimeRef,     \* useRef<number | null>(null)    Timer.tsx:14
    pausedTimeRef,    \* useRef<number>(0)              Timer.tsx:15
    raf,              \* number of pending requestAnimationFrame callbacks
    worker,           \* number of live (not terminated) Workers
    mounted,          \* the component is mounted
    now,              \* Date.now(), milliseconds
    display,          \* the text rendered from formatTime(time), Timer.tsx:159
    startTime,        \* useState<number | null>(null)  part_000:11
    interval,         \* number of live setInterval timers, part_000:29
    last,             \* history: the task that produced this state
    hist              \* history: the last commit and the run segments since

vars == <<time, isRunning, inputHours, inputMinutes, totalDurationRef,
          startTimeRef, pausedTimeRef, raf, worker, mounted, now, display,
          startTime, interval, last, hist>>

-----------------------------------------------------------------------------
(* Bounds of the model *)

\* Date.now() when the component mounts (any positive instant).
Epoch == 1000
\* The clock is advanced at most this many times in one behaviour.
MaxAdvances == 2
\* At most this many run segments (Start ... Pause) follow one commit.
MaxSegments == 2
\* The URL parameters seed the countdown at most this many times between two
\* commits by the Set button.
MaxSeedings == 1

\* Amounts of wall-clock time (ms) that pass between two tasks: a second and
\* a half, and a long stretch (half an hour) such as a backgrounded page.
ClockSteps == {1500, 1800000}

\* Texts an input-change event can carry (maxLength = 2, Timer.tsx:168,176),
\* for the hours field and for the minutes field.
HoursTexts == { <<>>, <<"1">>, <<"1", "a">> }
MinutesTexts == { <<>>, <<"3", "0">>, <<"-", "1">> }

\* Values of the hours / minutes URL parameters; <<>> is an absent (or
\* empty) parameter: both are falsy at Timer.tsx:21-23.
HoursParams == { <<>>, <<"a">> }
MinutesParams == { <<>>, <<"3", "0">>, <<"-", "1">> }

-----------------------------------------------------------------------------
(* JavaScript values *)

\* null.  The code reads startTimeRef.current only through its truthiness
\* (lines 35, 58, 67, 99) and through now - startTimeRef.current, and for
\* both null behaves as 0 does.
Null == 0

\* The number NaN (parseInt of a text with no leading digits).
NaN == -999999999

JsAdd(a, b) == IF a = NaN \/ b = NaN THEN NaN ELSE a + b
JsSub(a, b) == IF a = NaN \/ b = NaN THEN NaN ELSE a - b
JsMul(a, b) == IF a = NaN \/ b = NaN THEN NaN ELSE a * b
\* Math.max: NaN if either argument is NaN.
JsMax(a, b) == IF a = NaN \/ b = NaN THEN NaN ELSE IF a >= b THEN a ELSE b
\* a <= b: false when either side is NaN.
JsLe(a, b) == a # NaN /\ b # NaN /\ a <= b
\* x || 0 for a number x: 0 and NaN are falsy.
OrZero(x) == IF x = NaN \/ x = 0 THEN 0 ELSE x

Digits == <<"0", "1", "2", "3", "4", "5", "6", "7", "8", "9">>
IsDigit(c) == \E i \in 1..10 : Digits[i] = c
DigitVal(c) == (CHOOSE i \in 1..10 : Digits[i] = c) - 1

RECURSIVE ParseDigits(_, _)
ParseDigits(s, acc) ==
    IF s = <<>> \/ ~IsDigit(Head(s)) THEN acc
    ELSE ParseDigits(Tail(s), acc * 10 + DigitVal(Head(s)))

\* parseInt(s): an optional sign, then the longest prefix of decimal digits;
\* NaN when there is no digit.
ParseInt(s) ==
    LET signed == s # <<>> /\ Head(s) \in {"-", "+"}
        body   == IF signed THEN Tail(s) ELSE s
    IN  IF body = <<>> \/ ~IsDigit(Head(body)) THEN NaN
        ELSE IF signed /\ Head(s) = "-" THEN 0 - ParseDigits(body, 0)
        ELSE ParseDigits(body, 0)

\* /^\d+$/.test(s)
AllDigits(s) == s # <<>> /\ \A i \in 1..Len(s) : IsDigit(s[i])

-----------------------------------------------------------------------------
(* The display *)

\* Math.floor(a / b) for b > 0.
JsFloorDiv(a, b) == IF a = NaN THEN NaN ELSE a \div b
\* a % b for b > 0: the remainder has the sign of a.
JsRem(a, b) ==
    IF a = NaN THEN NaN ELSE IF a >= 0 THEN a % b ELSE 0 - ((0 - a) % b)

RECURSIVE NatToString(_)
NatToString(n) ==
    IF n < 10 THEN <<Digits[n + 1]>>
    ELSE NatToString(n \div 10) \o <<Digits[(n % 10) + 1]>>

\* Number.prototype.toString() of an integer or NaN.
NumberToString(n) ==
    IF n = NaN THEN <<"N", "a", "N">>
    ELSE IF n < 0 THEN <<"-">> \o NatToString(0 - n)
    ELSE NatToString(n)

PadStartNone(s, n, c) == s

\* s.padStart(n, c) for a one-character c.
RECURSIVE PadStart(_, _, _)
PadStart(s, n, c) == IF Len(s) >= n THEN s ELSE PadStart(<<c>> \o s, n, c)

formatTime(t) ==
    LET hours   == JsFloorDiv(t, 3600)
        minutes == JsFloorDiv(JsRem(t, 3600), 60)
        seconds == JsRem(t, 60)
    IN  PadStart(NumberToString(hours), 2, "0") \o <<":">>
        \o PadStart(NumberToString(minutes), 2, "0") \o <<":">>
        \o PadStart(NumberToString(seconds), 2, "0")

-----------------------------------------------------------------------------
(* The countdown formula *)

\* Math.floor((now - startTimeRef.current) / 1000)
ElapsedSinceStart(start, t) == (t - start) \div 1000

\* Math.max(totalDurationRef.current - (elapsedSinceStart + pausedTimeRef.current), 0)
NewRemainingTime(total, start, paused, t) ==
    JsMax(JsSub(total, ElapsedSinceStart(start, t) + paused), 0)

-----------------------------------------------------------------------------
(* Effects *)

\* Dependency arrays.
MainDeps(run, tm) == <<run, tm>>
WorkerDeps(run, tm) == <<run>>

\* Cleanup of the main effect: cancelAnimationFrame(requestId).
MainCleanup(rf) == IF rf > 0 THEN rf - 1 ELSE 0

MainEffectAlwaysRuns(run, tm, st, tot, pa, rf) ==
    [start  |-> IF st = Null THEN now ELSE st,
     total  |-> IF st = Null THEN tm ELSE tot,
     paused |-> pa,
     raf    |-> rf + 1]

\* Body of the main effect, run with state (run, tm) and refs (st, tot, pa).
MainEffect(run, tm, st, tot, pa, rf) ==
    IF run
    THEN [start  |-> IF st = Null THEN now ELSE st,
          total  |-> IF st = Null THEN tm ELSE tot,
          paused |-> pa,
          raf    |-> rf + 1]
    ELSE IF st # Null
    THEN [start  |-> Null,
          total  |-> tot,
          paused |-> pa + ElapsedSinceStart(st, now),
          raf    |-> rf]
    ELSE [start |-> st, total |-> tot, paused |-> pa, raf |-> rf]

WorkerCleanupLeaks(w) == w

\* Cleanup of the worker effect: worker.terminate().
WorkerCleanup(w) == IF w > 0 THEN w - 1 ELSE 0

\* Body of the worker effect.
WorkerEffect(run, w) == IF run THEN w + 1 ELSE w

\* The render that follows a task which left the state at (tm, run) and the
\* refs at (st, tot, pa), with rf animation-frame callbacks pending: the
\* effects whose dependencies changed are cleaned up and run again.
Rerender(tm, run, st, tot, pa, rf) ==
    LET mainRuns   == MainDeps(run, tm) # MainDeps(isRunning, time)
        workerRuns == WorkerDeps(run, tm) # WorkerDeps(isRunning, time)
        e == IF mainRuns
             THEN MainEffect(run, tm, st, tot, pa, MainCleanup(rf))
             ELSE [start |-> st, total |-> tot, paused |-> pa, raf |-> rf]
    IN  /\ time' = tm
        /\ display' = formatTime(tm)
        /\ UNCHANGED <<startTime, interval>>
        /\ isRunning' = run
        /\ startTimeRef' = e.start
        /\ totalDurationRef' = e.total
        /\ pausedTimeRef' = e.paused
        /\ raf' = e.raf
        /\ worker' = IF workerRuns THEN WorkerEffect(run, WorkerCleanup(worker))
                     ELSE worker

-----------------------------------------------------------------------------
(* History *)

\* The number of times the clock has advanced: ClockSteps are such that now
\* determines it.
Advances ==
    ((now - Epoch) \div 1800000) + (((now - Epoch) % 1800000) \div 1500)

\* Wall-clock time spent running since the last commit, ms.
RanMs == hist.ranMs + (IF hist.segBegin # 0 THEN now - hist.segBegin ELSE 0)

HistCommit(kind, d, run) ==
    [kind |-> kind, D |-> d, ranMs |-> 0, whole |-> TRUE,
     segs |-> IF run THEN 1 ELSE 0, segBegin |-> IF run THEN now ELSE 0,
     seedings |-> IF kind = "set" THEN 0 ELSE hist.seedings + 1]

HistStart == [hist EXCEPT !.segs = @ + 1, !.segBegin = now]

HistStop ==
    IF hist.segBegin = 0 THEN hist
    ELSE [hist EXCEPT !.ranMs = @ + (now - hist.segBegin),
                      !.whole = @ /\ (now - hist.segBegin) % 1000 = 0,
                      !.segBegin = 0]

-----------------------------------------------------------------------------
(* Actions *)

Init ==
    /\ time = 0
    /\ isRunning = FALSE
    /\ inputHours = <<>>
    /\ inputMinutes = <<>>
    /\ totalDurationRef = 0
    /\ startTimeRef = Null
    /\ pausedTimeRef = 0
    /\ raf = 0
    /\ worker = 0
    /\ mounted = TRUE
    /\ now = Epoch
    /\ display = formatTime(0)
    /\ startTime = Null
    /\ interval = 0
    /\ last = "mount"
    /\ hist = [kind |-> "none", D |-> 0, ranMs |-> 0, whole |-> TRUE,
               segs |-> 0, segBegin |-> 0, seedings |-> 0]

\* Wall-clock time passes.
Advance(d) ==
    /\ mounted
    /\ Advances < MaxAdvances
    /\ now' = now + d
    /\ last' = "advance"
    /\ UNCHANGED <<time, isRunning, inputHours, inputMinutes, totalDurationRef,
                   startTimeRef, pausedTimeRef, raf, worker, mounted, display,
                   startTime, interval, hist>>

AcceptedInputUnchecked(old, value) == value

\* The value handleInputChange stores for an event carrying value.
AcceptedInput(old, value) ==
    IF value = <<>> \/ (AllDigits(value) /\ JsLe(0, ParseInt(value)))
    THEN value ELSE old

HandleInputChange(field, value) ==
    /\ mounted
    /\ inputHours' = IF field = "hours" THEN AcceptedInput(inputHours, value)
                     ELSE inputHours
    /\ inputMinutes' = IF field = "minutes" THEN AcceptedInput(inputMinutes, value)
                       ELSE inputMinutes
    /\ last' = IF AcceptedInput(IF field = "hours" THEN inputHours ELSE inputMinutes,
                                value) = value
                THEN "input" ELSE "inputRejected"
    /\ UNCHANGED <<time, isRunning, totalDurationRef, startTimeRef,
                   pausedTimeRef, raf, worker, mounted, now, display,
                   startTime, interval, hist>>

TotalSecondsMinutesAsHours(hours, minutes) ==
    JsAdd(JsMul(hours, 3600), JsMul(minutes, 3600))

\* hours * 3600 + minutes * 60
TotalSeconds(hours, minutes) == JsAdd(JsMul(hours, 3600), JsMul(minutes, 60))

SetTimerKeepsPaused ==
    /\ mounted
    /\ LET totalSeconds == TotalSeconds(OrZero(ParseInt(inputHours)),
                                        OrZero(ParseInt(inputMinutes)))
       IN  /\ Rerender(totalSeconds, FALSE, Null, totalSeconds, pausedTimeRef, raf)
           /\ hist' = HistCommit("set", totalSeconds, FALSE)
    /\ inputHours' = <<>>
    /\ inputMinutes' = <<>>
    /\ last' = "setTimer"
    /\ UNCHANGED <<mounted, now>>

\* The "Set" / "Reset" button.
SetTimer ==
    /\ mounted
    /\ LET totalSeconds == TotalSeconds(OrZero(ParseInt(inputHours)),
                                        OrZero(ParseInt(inputMinutes)))
       IN  /\ Rerender(totalSeconds, FALSE, Null, totalSeconds, 0, raf)
           /\ hist' = HistCommit("set", totalSeconds, FALSE)
    /\ inputHours' = <<>>
    /\ inputMinutes' = <<>>
    /\ last' = "setTimer"
    /\ UNCHANGED <<mounted, now>>

\* The label of the primary button: inputHours || inputMinutes ? "Set" : "Reset".
PrimaryButtonLabel ==
    IF inputHours # <<>> \/ inputMinutes # <<>> THEN "Set" ELSE "Reset"

StartPauseButtonAlwaysShown == TRUE

\* The secondary button is rendered when time !== 0.
StartPauseButtonShown == time # 0

\* The label of the secondary button: isRunning ? "Pause" : "Start".
StartPauseButtonLabel == IF isRunning THEN "Pause" ELSE "Start"

\* A click on the "Start" / "Pause" button.
StartPauseTimer ==
    /\ mounted
    /\ StartPauseButtonShown
    /\ isRunning \/ hist.segs < MaxSegments
    /\ Rerender(time, ~isRunning, startTimeRef, totalDurationRef, pausedTimeRef, raf)
    /\ hist' = IF isRunning THEN HistStop ELSE HistStart
    /\ last' = "startPause"
    /\ UNCHANGED <<inputHours, inputMinutes, mounted, now>>

\* A pending animation-frame callback runs.  Every such callback was created
\* by an effect instance whose isRunning was true, so the captured isRunning
\* of line 35 is true.
UpdateTimer ==
    /\ mounted
    /\ raf > 0
    /\ IF startTimeRef # Null
       THEN LET newRemainingTime ==
                    NewRemainingTime(totalDurationRef, startTimeRef, pausedTimeRef, now)
            IN  IF JsLe(newRemainingTime, 0)
                THEN /\ Rerender(newRemainingTime, FALSE, Null, totalDurationRef,
                                 pausedTimeRef, raf - 1)
                     /\ hist' = HistStop
                ELSE /\ Rerender(newRemainingTime, isRunning, startTimeRef,
                                 totalDurationRef, pausedTimeRef, (raf - 1) + 1)
                     /\ hist' = hist
       ELSE /\ Rerender(time, isRunning, startTimeRef, totalDurationRef,
                        pausedTimeRef, raf - 1)
            /\ hist' = hist
    /\ last' = "updateTimer"
    /\ UNCHANGED <<inputHours, inputMinutes, mounted, now>>

OnMessageTimeTickCounted ==
    IF startTimeRef # Null THEN JsMax(JsSub(time, 1), 0) ELSE time

\* The time a worker message publishes.
OnMessageTime ==
    IF startTimeRef # Null
    THEN NewRemainingTime(totalDurationRef, startTimeRef, pausedTimeRef, now)
    ELSE time

\* A 'tick' message of the worker is delivered.
WorkerOnMessage ==
    /\ mounted
    /\ worker > 0
    /\ Rerender(OnMessageTime, isRunning, startTimeRef, totalDurationRef,
                pausedTimeRef, raf)
    /\ last' = "onmessage"
    /\ UNCHANGED <<inputHours, inputMinutes, mounted, now, hist>>

\* The total the URL-parameter effect computes.
QueryTotalSeconds(hoursParam, minutesParam) ==
    TotalSeconds(ParseInt(IF hoursParam # <<>> THEN hoursParam ELSE <<"0">>),
                 ParseInt(IF minutesParam # <<>> THEN minutesParam ELSE <<"0">>))

\* router.query becomes a new object with these parameters and the
\* URL-parameter effect runs; at most maxSeedings seedings in a row.
QueryEffectUpTo(maxSeedings, hoursParam, minutesParam) ==
    /\ mounted
    /\ IF hoursParam # <<>> \/ minutesParam # <<>>
       THEN LET totalSeconds == QueryTotalSeconds(hoursParam, minutesParam)
            IN  /\ hist.seedings < maxSeedings
                /\ Rerender(totalSeconds, isRunning, startTimeRef, totalSeconds,
                            pausedTimeRef, raf)
                /\ hist' = HistCommit(IF hist.kind = "none" THEN "initial" ELSE "reseed",
                                      totalSeconds, isRunning)
       ELSE UNCHANGED <<time, isRunning, startTimeRef, totalDurationRef,
                        pausedTimeRef, raf, worker, display, startTime,
                        interval, hist>>
    /\ last' = "query"
    /\ UNCHANGED <<inputHours, inputMinutes, mounted, now>>

QueryEffect(hoursParam, minutesParam) ==
    QueryEffectUpTo(MaxSeedings, hoursParam, minutesParam)

\* The component unmounts: every effect is cleaned up, and the component's
\* state and refs are discarded with it.
Unmount ==
    /\ mounted
    /\ mounted' = FALSE
    /\ raf' = MainCleanup(raf)
    /\ worker' = WorkerCleanup(worker)
    /\ time' = 0
    /\ display' = formatTime(0)
    /\ UNCHANGED <<startTime, interval>>
    /\ isRunning' = FALSE
    /\ inputHours' = <<>>
    /\ inputMinutes' = <<>>
    /\ totalDurationRef' = 0
    /\ startTimeRef' = Null
    /\ pausedTimeRef' = 0
    /\ hist' = [kind |-> "none", D |-> 0, ranMs |-> 0, whole |-> TRUE,
                segs |-> 0, segBegin |-> 0, seedings |-> 0]
    /\ last' = "unmount"
    /\ UNCHANGED now

Next ==
    \/ \E d \in ClockSteps : Advance(d)
    \/ \E v \in HoursTexts : HandleInputChange("hours", v)
    \/ \E v \in MinutesTexts : HandleInputChange("minutes", v)
    \/ SetTimer
    \/ StartPauseTimer
    \/ UpdateTimer
    \/ WorkerOnMessage
    \/ \E h \in HoursParams, m \in MinutesParams : QueryEffect(h, m)
    \/ Unmount

Spec == Init /\ [][Next]_vars

-----------------------------------------------------------------------------
(* Properties *)

Triggers == {"updateTimer", "onmessage"}

Max(a, b) == IF a >= b THEN a ELSE b

\* The number a text of decimal digits denotes; 0 for the empty text.
DecimalValue(s) ==
    LET pow[k \in 0..Len(s)] == IF k = 0 THEN 1 ELSE 10 * pow[k - 1]
        sum[i \in 0..Len(s)] ==
            IF i = 0 THEN 0
            ELSE sum[i - 1] + DigitVal(s[i]) * pow[Len(s) - i]
    IN  sum[Len(s)]

\* A text is empty or made of decimal digits only.
OnlyDigits(s) == \A i \in 1..Len(s) : s[i] \in {Digits[k] : k \in 1..10}

\* Every run segment since the last commit, the current one included, has
\* lasted a whole number of seconds.
WholeSegments ==
    /\ hist.whole
    /\ hist.segBegin # 0 => (now - hist.segBegin) % 1000 = 0

\* C1: after a commit by Set to D, whatever the run / pause segments since,
\* a trigger that fires when the run segments add up to a whole number of
\* seconds s <= D publishes RemainingSeconds = D - s: paused time consumes
\* nothing and no run segment is counted twice.
C1_ConsumedIsRunTime ==
    ( /\ hist.kind = "set"
      /\ last \in Triggers
      /\ hist.segs >= 1
      /\ WholeSegments
      /\ RanMs <= hist.D * 1000 )
    => time = hist.D - (RanMs \div 1000)

\* The countdown is in or just after its first run segment since a commit
\* by Set or by the initial parameters, and a trigger has just fired.
FirstRunTrigger ==
    /\ hist.kind \in {"set", "initial"}
    /\ hist.D # NaN
    /\ hist.segs = 1
    /\ last \in Triggers

\* C2: in the first run after a commit to D, a trigger that fires t whole
\* seconds after the start publishes max(D - t, 0), however many triggers
\* fired before it.
C2_WallClockDerived ==
    FirstRunTrigger => time = Max(hist.D - (RanMs \div 1000), 0)

C2_Witness ==
    /\ FirstRunTrigger
    /\ last = "onmessage"
    /\ hist.D = 5400
    /\ RanMs = 1801500
    /\ time = 3599

\* C3: RemainingSeconds is never negative (nor NaN).
C3_NeverNegative == JsLe(0, time)

\* C4: after a commit by Set, a trigger that fires while Running and
\* computes remaining <= 0 leaves RunState not Running and StartTimestamp
\* cleared.
C4_ZeroStops ==
    (hist.kind = "set" /\ last \in Triggers /\ JsLe(time, 0))
    => (~isRunning /\ startTimeRef = Null)

\* C5: a commit with the fields holding h and m leaves RemainingSeconds =
\* TotalDuration = h*3600 + m*60, AccumulatedPause = 0, StartTimestamp
\* cleared, RunState not Running and both fields empty.
C5_CommitResets ==
    [][ last' = "setTimer" =>
          /\ time' = DecimalValue(inputHours) * 3600 + DecimalValue(inputMinutes) * 60
          /\ totalDurationRef' = time'
          /\ pausedTimeRef' = 0
          /\ startTimeRef' = Null
          /\ ~isRunning'
          /\ inputHours' = <<>>
          /\ inputMinutes' = <<>> ]_vars

C5_Witness ==
    /\ last = "setTimer"
    /\ time = 5400
    /\ totalDurationRef = 5400
    /\ now > Epoch
    /\ inputHours = <<>> /\ inputMinutes = <<>>

\* C6: when not Running, and after unmount, no animation-frame request is
\* pending and no worker is alive; there is never more than one of each.
C6_TornDown ==
    /\ (~isRunning \/ ~mounted) => (raf = 0 /\ worker = 0)
    /\ raf <= 1
    /\ worker <= 1

C6_Witness ==
    /\ last = "startPause"
    /\ ~isRunning
    /\ pausedTimeRef > 0
    /\ raf = 0 /\ worker = 0

\* The value the hosting page means by a parameter: its number, 0 when it
\* is absent or not a number.
ParamValue(s) ==
    IF s # <<>> /\ OnlyDigits(s) THEN DecimalValue(s)
    ELSE IF Len(s) > 1 /\ Head(s) = "-" /\ OnlyDigits(Tail(s))
    THEN 0 - DecimalValue(Tail(s))
    ELSE 0

\* C7: seeding from the parameters (h, m) leaves RemainingSeconds =
\* TotalDuration = H*3600 + M*60, H and M being the numeric values or 0,
\* and that is a non-negative integer.
C7_SeedIsNumber ==
    [][ \A h \in HoursParams, m \in MinutesParams :
          (QueryEffect(h, m) /\ (h # <<>> \/ m # <<>>)) =>
              /\ time' = ParamValue(h) * 3600 + ParamValue(m) * 60
              /\ totalDurationRef' = time'
              /\ time' >= 0 ]_vars

\* C8: between two commits RemainingSeconds never increases.
C8_NeverIncreases ==
    [][ (mounted' /\ last' \notin {"setTimer", "query"}) => ~(time' > time) ]_vars

\* C9: a step that starts and ends not Running, and is no commit, leaves
\* RemainingSeconds, TotalDuration and AccumulatedPause unchanged.
C9_FrozenWhilePaused ==
    [][ (~isRunning /\ ~isRunning' /\ mounted' /\ last' \notin {"setTimer", "query"})
          => UNCHANGED <<time, totalDurationRef, pausedTimeRef>> ]_vars

C9_Witness ==
    /\ last = "advance"
    /\ ~isRunning
    /\ hist.segs >= 1
    /\ pausedTimeRef > 0
    /\ now - Epoch > hist.ranMs

\* C10: an input-change event whose text is neither empty nor made of
\* digits only leaves the field unchanged, and both fields hold digits only.
C10_InputRejected ==
    [][ /\ \A v \in HoursTexts :
             (HandleInputChange("hours", v) /\ (v = <<>> \/ ~OnlyDigits(v)))
                 => (inputHours' = IF v = <<>> THEN v ELSE inputHours)
        /\ \A v \in MinutesTexts :
             (HandleInputChange("minutes", v) /\ (v = <<>> \/ ~OnlyDigits(v)))
                 => (inputMinutes' = IF v = <<>> THEN v ELSE inputMinutes)
        /\ OnlyDigits(inputHours')
        /\ OnlyDigits(inputMinutes') ]_vars

C10_Witness ==
    /\ last = "inputRejected"
    /\ inputHours = <<"1">>
    /\ inputMinutes = <<"3", "0">>

-----------------------------------------------------------------------------
(* formatTime on its own *)

\* The largest remaining time (seconds) formatTime is applied to.
MaxRemaining == 359999

\* Any remaining time up to MaxRemaining, nothing rendered yet.
InitFormat ==
    /\ time \in 0..MaxRemaining
    /\ display = <<>>
    /\ isRunning = FALSE
    /\ inputHours = <<>>
    /\ inputMinutes = <<>>
    /\ totalDurationRef = time
    /\ startTimeRef = Null
    /\ pausedTimeRef = 0
    /\ raf = 0
    /\ worker = 0
    /\ mounted = TRUE
    /\ now = Epoch
    /\ startTime = Null
    /\ interval = 0
    /\ last = "mount"
    /\ hist = [kind |-> "none", D |-> 0, ranMs |-> 0, whole |-> TRUE,
               segs |-> 0, segBegin |-> 0, seedings |-> 0]

\* The render of Timer.tsx:159.
RenderTime ==
    /\ display = <<>>
    /\ display' = formatTime(time)
    /\ last' = "render"
    /\ UNCHANGED <<time, isRunning, inputHours, inputMinutes, totalDurationRef,
                   startTimeRef, pausedTimeRef, raf, worker, mounted, now,
                   startTime, interval, hist>>

NextFormat == RenderTime

SpecFormat == InitFormat /\ [][NextFormat]_vars

\* The text is two decimal digits, a colon, two digits, a colon, two digits.
ThreeTwoDigitFields(s) ==
    /\ Len(s) = 8
    /\ s[3] = ":" /\ s[6] = ":"
    /\ \A i \in {1, 2, 4, 5, 7, 8} : s[i] \in {Digits[k] : k \in 1..10}

\* C11: for every remaining time in [0, 359999] the rendered text is three
\* fields of exactly two decimal digits each, HH:MM:SS, and reading the
\* fields back as hours, minutes and seconds gives the remaining time.
C11_FormatDecodes ==
    (last = "render" /\ time >= 0 /\ time <= 359999) =>
        /\ ThreeTwoDigitFields(display)
        /\ DecimalValue(SubSeq(display, 1, 2)) * 3600
           + DecimalValue(SubSeq(display, 4, 5)) * 60
           + DecimalValue(SubSeq(display, 7, 8)) = time

C11_Witness ==
    /\ last = "render"
    /\ time = 359999
    /\ display = <<"9", "9", ":", "5", "9", ":", "5", "9">>

\* C12: the primary button reads "Set" exactly when some input is non-empty
\* and "Reset" otherwise; the start/pause button is offered exactly when
\* time is not 0 and reads "Pause" exactly when Running; so a click on it
\* never moves the timer to Running while time is 0.
C12_ButtonsFollowState ==
    /\ PrimaryButtonLabel =
           IF Len(inputHours) + Len(inputMinutes) > 0 THEN "Set" ELSE "Reset"
    /\ StartPauseButtonShown <=> ~(time = 0)
    /\ StartPauseButtonLabel = "Pause" <=> isRunning
    /\ StartPauseButtonLabel = "Start" <=> ~isRunning
    /\ (last = "startPause" /\ isRunning) => ~(time = 0)

C12_Witness ==
    /\ last = "startPause"
    /\ isRunning
    /\ time = 1800
    /\ StartPauseButtonShown
    /\ StartPauseButtonLabel = "Pause"
    /\ PrimaryButtonLabel = "Reset"

\* C13: a transition to Running after a Pause leaves TotalDuration as it
\* was, equal to the last committed duration; only a commit or a seeding
\* changes it.
C13_ResumeKeepsTotal ==
    (last = "startPause" /\ isRunning /\ hist.segs >= 2) =>
        totalDurationRef = hist.D

\* C14: after a manual pause AccumulatedPause is the floor of the summed
\* lengths of the run segments since the commit, so it is short of the true
\* running time by less than one second.
C14_PauseIsFloorOfRunTime ==
    (hist.kind = "set" /\ last = "startPause" /\ ~isRunning /\ hist.segs >= 1) =>
        /\ pausedTimeRef = hist.ranMs \div 1000
        /\ hist.ranMs - pausedTimeRef * 1000 < 1000

-----------------------------------------------------------------------------
(* A page driven through its URL parameters only *)

NextSeeded ==
    \/ \E d \in ClockSteps : Advance(d)
    \/ StartPauseTimer
    \/ UpdateTimer
    \/ WorkerOnMessage
    \/ \E h \in HoursParams, m \in MinutesParams :
            QueryEffectUpTo(MaxSeedings + 1, h, m)
    \/ Unmount

SpecSeeded == Init /\ [][NextSeeded]_vars

\* C15: the initial parameters seed the countdown once: after the first
\* seeding a later change of the hours / minutes parameters leaves
\* RemainingSeconds and TotalDuration unchanged, Running or not.
C15_SeededOnce ==
    [][ (hist.seedings >= 1 /\ last' = "query")
            => UNCHANGED <<time, totalDurationRef>> ]_vars

-----------------------------------------------------------------------------
(* A backgrounded page *)

\* The worker posts its ticks whatever the page's visibility, and the clock
\* moves on; nothing is assumed of animation frames or of the user.
SpecBackground ==
    /\ Init
    /\ [][Next]_vars
    /\ WF_vars(WorkerOnMessage)
    /\ WF_vars(\E d \in ClockSteps : Advance(d))

\* The user pauses, commits, re-seeds or leaves.
Interrupted ==
    \/ ~mounted
    \/ last = "startPause" /\ ~isRunning
    \/ last \in {"setTimer", "query"}

\* C16: a Running countdown whose wall-clock time is used up, and which the
\* user leaves alone, eventually shows 0 with the timer not Running and the
\* worker terminated, by worker ticks alone.
C16_WorkerAloneFinishes ==
    (hist.kind = "set" /\ isRunning /\ JsLe(OnMessageTime, 0))
        ~> ((time = 0 /\ ~isRunning /\ worker = 0) \/ Interrupted)

-----------------------------------------------------------------------------
(* The interval-only revision, src/unnamed/part_000 lines 1-121 *)

\* This revision keeps time, isRunning, inputHours and inputMinutes as
\* Timer.tsx does, has startTime as state and no refs, animation frames or
\* worker.  The page supplies no URL parameters here.

\* The time the interval callback publishes: prevTime less the whole seconds
\* since the startTime its closure captured, at least 1.
IntervalTime(prevTime, st, t) ==
    LET actualElapsed == (t - (IF st # Null THEN st ELSE t)) \div 1000
        elapsed       == JsMax(actualElapsed, 1)
    IN  JsMax(JsSub(prevTime, elapsed), 0)

\* The render that follows a task which left the state at (tm, run, st):
\* when isRunning or startTime changed, the interval effect is cleaned up
\* (clearInterval) and runs again, and once more after its own
\* setStartTime.
IntervalRerender(tm, run, st) ==
    /\ time' = tm
    /\ display' = formatTime(tm)
    /\ isRunning' = run
    /\ IF <<run, st>> # <<isRunning, startTime>>
       THEN /\ startTime' = IF run THEN (IF st # Null THEN st ELSE now) ELSE Null
            /\ interval' = IF run THEN 1 ELSE 0
       ELSE /\ startTime' = st
            /\ interval' = interval
    /\ UNCHANGED <<totalDurationRef, startTimeRef, pausedTimeRef, raf, worker>>

IntervalSetTimer ==
    /\ mounted
    /\ LET totalSeconds == TotalSeconds(OrZero(ParseInt(inputHours)),
                                        OrZero(ParseInt(inputMinutes)))
       IN  /\ IntervalRerender(totalSeconds, FALSE, startTime)
           /\ hist' = HistCommit("set", totalSeconds, FALSE)
    /\ inputHours' = <<>>
    /\ inputMinutes' = <<>>
    /\ last' = "setTimer"
    /\ UNCHANGED <<mounted, now>>

IntervalStartPauseTimer ==
    /\ mounted
    /\ time # 0
    /\ isRunning \/ hist.segs < MaxSegments
    /\ IntervalRerender(time, ~isRunning, startTime)
    /\ hist' = IF isRunning THEN HistStop ELSE HistStart
    /\ last' = "startPause"
    /\ UNCHANGED <<inputHours, inputMinutes, mounted, now>>

\* The callback of setInterval(..., 1000) runs, a second or more after the
\* effect that created the interval ran (which is when startTime was set).
IntervalCallback ==
    /\ mounted
    /\ interval > 0
    /\ now - startTime >= 1000
    /\ IntervalRerender(IntervalTime(time, startTime, now), isRunning, now)
    /\ last' = "intervalCallback"
    /\ UNCHANGED <<inputHours, inputMinutes, mounted, now, hist>>

IntervalUnmount ==
    /\ mounted
    /\ mounted' = FALSE
    /\ interval' = 0
    /\ time' = 0
    /\ display' = formatTime(0)
    /\ isRunning' = FALSE
    /\ startTime' = Null
    /\ inputHours' = <<>>
    /\ inputMinutes' = <<>>
    /\ hist' = [kind |-> "none", D |-> 0, ranMs |-> 0, whole |-> TRUE,
                segs |-> 0, segBegin |-> 0, seedings |-> 0]
    /\ last' = "unmount"
    /\ UNCHANGED <<totalDurationRef, startTimeRef, pausedTimeRef, raf, worker, now>>

NextInterval ==
    \/ \E d \in ClockSteps : Advance(d)
    \/ \E v \in HoursTexts : HandleInputChange("hours", v)
    \/ \E v \in MinutesTexts : HandleInputChange("minutes", v)
    \/ IntervalSetTimer
    \/ IntervalStartPauseTimer
    \/ IntervalCallback
    \/ IntervalUnmount

SpecInterval == Init /\ [][NextInterval]_vars

Min(a, b) == IF a <= b THEN a ELSE b

\* C17: in the interval-only revision, in an uninterrupted run started from
\* duration D, after the interval callback that runs t seconds after the
\* start the total subtracted from the remaining time is min(floor(t), D).
C17_IntervalNoDrift ==
    (hist.kind = "set" /\ hist.segs = 1 /\ isRunning /\ last = "intervalCallback") =>
        hist.D - time = Min(RanMs \div 1000, hist.D)

-----------------------------------------------------------------------------
(* The widget driven through its input fields only *)

\* Texts typed into the fields (maxLength = 2), the largest included.
UserHoursTexts == { <<>>, <<"9", "9">> }
UserMinutesTexts == { <<>>, <<"3", "0">>, <<"9", "9">> }

NextUser ==
    \/ \E d \in ClockSteps : Advance(d)
    \/ \E v \in UserHoursTexts : HandleInputChange("hours", v)
    \/ \E v \in UserMinutesTexts : HandleInputChange("minutes", v)
    \/ SetTimer
    \/ StartPauseTimer
    \/ UpdateTimer
    \/ WorkerOnMessage
    \/ Unmount

SpecUser == Init /\ [][NextUser]_vars

\* C18 as stated: every remaining time reachable through the input fields
\* alone lies in [0, 359999], and the display is three two-digit fields.
C18_AtMostTwoDigitHours ==
    /\ time >= 0
    /\ time <= 359999
    /\ ThreeTwoDigitFields(display)

\* The text is two or three decimal digits, a colon, two digits, a colon,
\* two digits.
HoursThenTwoDigitFields(s) ==
    /\ Len(s) \in {8, 9}
    /\ s[Len(s) - 5] = ":" /\ s[Len(s) - 2] = ":"
    /\ \A i \in (1..Len(s)) \ {Len(s) - 5, Len(s) - 2} :
            s[i] \in {Digits[k] : k \in 1..10}

\* C18, amended: every remaining time reachable through the input fields
\* alone lies in [0, 362340] (99 hours and 99 minutes); the display is an
\* hours field of two or three digits and two fields of two digits.
C18_InputRange ==
    /\ time >= 0
    /\ time <= 99 * 3600 + 99 * 60
    /\ HoursThenTwoDigitFields(display)

C18_Witness ==
    /\ last = "setTimer"
    /\ time = 362340
    /\ display = <<"1", "0", "0", ":", "3", "9", ":", "0", "0">>

-----------------------------------------------------------------------------
(* The start timestamp *)

\* StartTimestamp is recorded exactly when Running, is the instant Running
\* began, and a recorded value is never replaced by another.
StartRecordedIffRunning ==
    /\ mounted' => (startTimeRef' # Null <=> isRunning')
    /\ (~isRunning /\ isRunning') => startTimeRef' = now
    /\ (startTimeRef # Null /\ startTimeRef' # Null) => startTimeRef' = startTimeRef

\* C19: in every settled state StartTimestamp is recorded exactly when the
\* timer is Running: it is set when Running begins, cleared on manual pause,
\* on reaching zero and on commit, and never overwritten while recorded.
C19_StartClearedWhenDone ==
    [][ /\ StartRecordedIffRunning
        /\ (last' = "startPause" /\ ~isRunning') => startTimeRef' = Null
        /\ (last' \in Triggers /\ JsLe(time', 0)) => startTimeRef' = Null
        /\ last' = "setTimer" => startTimeRef' = Null ]_vars

====
